---- MODULE Spec2Model ----
(***************************************************************************)
(* A model of the BER encoder of pyasn1 (pyasn1/codec/ber/encoder.py).     *)
(*                                                                         *)
(* Octet strings are sequences of numbers in 0..255.  Python integers that *)
(* stay below 2^31 are TLA+ integers: Python's  x & (2^k - 1)  on any      *)
(* integer is  x % 2^k  and  x >> k  is  x \div 2^k  (both round towards   *)
(* minus infinity, as Python does).  A length handed to encodeLength may   *)
(* be arbitrarily large in Python; it is modelled as its sequence of       *)
(* base-256 digits, most significant first, without leading zero digits.   *)
(***************************************************************************)
EXTENDS Integers, Sequences, FiniteSets, TLC

VARIABLES op, arg, res, pc, m, e, eo, po, fo

vars == <<op, arg, res, pc, m, e, eo, po, fo>>

callVars == <<op, arg, res>>
realVars == <<pc, m, e, eo, po, fo>>

(***************************************************************************)
(* Bounds of the model                                                     *)
(***************************************************************************)
MaxInt == 300
IntWindow == 3
MaxTagId == 260
MaxLength == 600
MaxBigLen == 128

(***************************************************************************)
(* Program constants                                                       *)
(***************************************************************************)
tagFormatConstructed == 32
MaxLengthOctets == 126

(***************************************************************************)
(* Bit operations on naturals                                              *)
(***************************************************************************)
RECURSIVE BitOr(_, _)
BitOr(a, b) ==
    IF a = 0 THEN b
    ELSE IF b = 0 THEN a
    ELSE (IF a % 2 = 1 \/ b % 2 = 1 THEN 1 ELSE 0) + 2 * BitOr(a \div 2, b \div 2)

RECURSIVE BitAnd(_, _)
BitAnd(a, b) ==
    IF a = 0 \/ b = 0 THEN 0
    ELSE (IF a % 2 = 1 /\ b % 2 = 1 THEN 1 ELSE 0) + 2 * BitAnd(a \div 2, b \div 2)

int2oct(i) == <<i>>

null == <<>>

Ok(v) == [ok |-> TRUE, val |-> v]
Raise(s) == [ok |-> FALSE, error |-> s]

(***************************************************************************)
(* AbstractItemEncoder.encodeTag                                           *)
(***************************************************************************)
RECURSIVE encodeTagLoop(_, _)
encodeTagLoop(tagId, s) ==
    IF tagId = 0 THEN s
    ELSE encodeTagLoop(tagId \div 128, int2oct(BitOr(128, tagId % 128)) \o s)

\* A variant of encodeTag that leaves bit 7 of the leading number octets clear
encodeTagNoContinuationBit(t, isConstructed) ==
    LET v0 == BitOr(t[1], t[2])
        v == IF isConstructed # 0 THEN BitOr(v0, tagFormatConstructed) ELSE v0
    IN  IF t[3] < 31 THEN int2oct(BitOr(v, t[3]))
        ELSE int2oct(BitOr(v, 31)) \o <<(t[3] \div 128) % 128, t[3] % 128>>

encodeTag(t, isConstructed) ==
    LET tagClass == t[1]
        tagFormat == t[2]
        tagId == t[3]
        v0 == BitOr(tagClass, tagFormat)
        v == IF isConstructed # 0 THEN BitOr(v0, tagFormatConstructed) ELSE v0
    IN  IF tagId < 31 THEN int2oct(BitOr(v, tagId))
        ELSE int2oct(BitOr(v, 31))
                \o encodeTagLoop(tagId \div 128, int2oct(tagId % 128))

(***************************************************************************)
(* Arbitrary-size lengths as base-256 digit sequences                      *)
(***************************************************************************)
RECURSIVE NatToBig(_)
NatToBig(n) == IF n = 0 THEN <<>> ELSE NatToBig(n \div 256) \o <<n % 256>>

RECURSIVE BigToNat(_)
BigToNat(L) ==
    IF L = <<>> THEN 0 ELSE 256 * BigToNat(SubSeq(L, 1, Len(L) - 1)) + L[Len(L)]

BigIsZero(L) == L = <<>>
BigLow8(L) == L[Len(L)]
BigShrN(L, n) == SubSeq(L, 1, Len(L) - n)
BigDigits(L) == Len(L)
BigLess128(L) == Len(L) = 0 \/ (Len(L) = 1 /\ L[1] < 128)
BigToOctet(L) == IF L = <<>> THEN 0 ELSE L[1]

RECURSIVE StripLeadingZeros(_)
StripLeadingZeros(s) ==
    IF s # <<>> /\ s[1] = 0 THEN StripLeadingZeros(Tail(s)) ELSE s

(***************************************************************************)
(* AbstractItemEncoder.encodeLength                                        *)
(***************************************************************************)
\* while length: substrate = int2oct(length&0xff) + substrate; length >>= 8
\* The loop runs once per base-256 digit of length and leaves, at position i
\* from the left, the octet (length >> 8*(k-i)) & 0xff, k the digit count.
encodeLengthLoop(length) ==
    LET k == BigDigits(length)
    IN  [i \in 1 .. k |-> BigLow8(BigShrN(length, k - i))]

\* A variant of encodeLength whose short form reaches 128
encodeLengthShortTo128(length, defMode, supportIndef) ==
    IF defMode = 0 /\ supportIndef # 0 THEN Ok(int2oct(128))
    ELSE IF Len(length) = 0 \/ (Len(length) = 1 /\ length[1] <= 128)
    THEN Ok(int2oct(BigToOctet(length)))
    ELSE LET substrate == encodeLengthLoop(length)
             substrateLen == Len(substrate)
         IN  IF substrateLen > MaxLengthOctets
             THEN Raise("Length octets overflow")
             ELSE Ok(int2oct(BitOr(128, substrateLen)) \o substrate)

\* A variant of encodeLength that takes the indefinite branch in either mode
encodeLengthIgnoresDefMode(length, defMode, supportIndef) ==
    IF supportIndef # 0 THEN Ok(int2oct(128))
    ELSE IF BigLess128(length) THEN Ok(int2oct(BigToOctet(length)))
    ELSE LET substrate == encodeLengthLoop(length)
             substrateLen == Len(substrate)
         IN  IF substrateLen > MaxLengthOctets
             THEN Raise("Length octets overflow")
             ELSE Ok(int2oct(BitOr(128, substrateLen)) \o substrate)

encodeLength(length, defMode, supportIndef) ==
    IF defMode = 0 /\ supportIndef # 0 THEN Ok(int2oct(128))
    ELSE IF BigLess128(length) THEN Ok(int2oct(BigToOctet(length)))
    ELSE LET substrate == encodeLengthLoop(length)
             substrateLen == Len(substrate)
         IN  IF substrateLen > MaxLengthOctets
             THEN Raise("Length octets overflow")
             ELSE Ok(int2oct(BitOr(128, substrateLen)) \o substrate)

(***************************************************************************)
(* IntegerEncoder.encodeValue                                              *)
(***************************************************************************)
RECURSIVE IntegerFillLoop(_, _)
IntegerFillLoop(value, octets) ==
    LET o == <<value % 256>> \o octets
    IN  IF value = 0 \/ value = -1 THEN [value |-> value, octets |-> o]
        ELSE IntegerFillLoop(value \div 256, o)

RECURSIVE IntegerStripLoop(_)
IntegerStripLoop(octets) ==
    IF Len(octets) > 1
       /\ (   (octets[1] = 0 /\ BitAnd(octets[2], 128) = 0)
           \/ (octets[1] = 255 /\ BitAnd(octets[2], 128) # 0))
    THEN IntegerStripLoop(Tail(octets))
    ELSE octets

\* A variant of IntegerEncoder.encodeValue without the loop of lines 94-97
IntegerEncoder_encodeValueNoStrip(value) ==
    LET f == IntegerFillLoop(value, <<>>)
        padded == IF f.value = 0 /\ BitAnd(f.octets[1], 128) # 0
                  THEN <<0>> \o f.octets ELSE f.octets
    IN  [substrate |-> padded, isConstructed |-> 0]

IntegerEncoder_encodeValue(value) ==
    LET f == IntegerFillLoop(value, <<>>)
        padded == IF f.value = 0 /\ BitAnd(f.octets[1], 128) # 0
                  THEN <<0>> \o f.octets ELSE f.octets
    IN  [substrate |-> IntegerStripLoop(padded), isConstructed |-> 0]

(***************************************************************************)
(* Decoding rules of the specification (identifier, length, integer)       *)
(***************************************************************************)
RECURSIVE decodeTagNumber(_, _)
decodeTagNumber(octets, n) ==
    IF octets = <<>> THEN [ok |-> FALSE, number |-> n, rest |-> <<>>]
    ELSE LET acc == n * 128 + (octets[1] % 128)
         IN  IF octets[1] < 128
             THEN [ok |-> TRUE, number |-> acc, rest |-> Tail(octets)]
             ELSE decodeTagNumber(Tail(octets), acc)

decodeTag(octets) ==
    IF octets = <<>>
    THEN [ok |-> FALSE, class |-> 0, constructed |-> 0, number |-> 0, rest |-> <<>>]
    ELSE LET first == octets[1]
             class == first - (first % 64)
             constructed == IF BitAnd(first, 32) # 0 THEN 1 ELSE 0
             low5 == first % 32
         IN  IF low5 < 31
             THEN [ok |-> TRUE, class |-> class, constructed |-> constructed,
                   number |-> low5, rest |-> Tail(octets)]
             ELSE LET r == decodeTagNumber(Tail(octets), 0)
                  IN  [ok |-> r.ok, class |-> class, constructed |-> constructed,
                       number |-> r.number, rest |-> r.rest]

decodeLength(octets) ==
    IF octets = <<>>
    THEN [ok |-> FALSE, indefinite |-> FALSE, length |-> <<>>, rest |-> <<>>]
    ELSE LET L == octets[1]
             k == L % 128
         IN  IF L < 128
             THEN [ok |-> TRUE, indefinite |-> FALSE, length |-> NatToBig(L),
                   rest |-> Tail(octets)]
             ELSE IF L = 128
             THEN [ok |-> TRUE, indefinite |-> TRUE, length |-> <<>>,
                   rest |-> Tail(octets)]
             ELSE IF L = 255 \/ Len(octets) < 1 + k
             THEN [ok |-> FALSE, indefinite |-> FALSE, length |-> <<>>, rest |-> <<>>]
             ELSE [ok |-> TRUE, indefinite |-> FALSE,
                   length |-> StripLeadingZeros(SubSeq(octets, 2, 1 + k)),
                   rest |-> SubSeq(octets, 2 + k, Len(octets))]

RECURSIVE decodeSignedTail(_, _)
decodeSignedTail(octets, acc) ==
    IF octets = <<>> THEN acc
    ELSE decodeSignedTail(Tail(octets), acc * 256 + octets[1])

decodeSigned(octets) ==
    IF octets = <<>> THEN 0
    ELSE decodeSignedTail(Tail(octets),
                          IF octets[1] >= 128 THEN octets[1] - 256 ELSE octets[1])

(***************************************************************************)
(* The value objects the encoder consumes (pyasn1.type).  A tag is the     *)
(* triple asTuple() returns; a tag set lists its tags outermost last.      *)
(***************************************************************************)
tagClassUniversal == 0
tagClassApplication == 64
tagClassContext == 128
tagClassPrivate == 192
tagFormatSimple == 0

UniversalTagSet(form, id) == << <<tagClassUniversal, form, id>> >>

endOfOctetsTagSet == UniversalTagSet(tagFormatSimple, 0)
BooleanTagSet == UniversalTagSet(tagFormatSimple, 1)
IntegerTagSet == UniversalTagSet(tagFormatSimple, 2)
BitStringTagSet == UniversalTagSet(tagFormatSimple, 3)
OctetStringTagSet == UniversalTagSet(tagFormatSimple, 4)
NullTagSet == UniversalTagSet(tagFormatSimple, 5)
ObjectIdentifierTagSet == UniversalTagSet(tagFormatSimple, 6)
RealTagSet == UniversalTagSet(tagFormatSimple, 9)
EnumeratedTagSet == UniversalTagSet(tagFormatSimple, 10)
UTF8StringTagSet == UniversalTagSet(tagFormatSimple, 12)
SequenceTagSet == UniversalTagSet(tagFormatConstructed, 16)
SetTagSet == UniversalTagSet(tagFormatConstructed, 17)
IA5StringTagSet == UniversalTagSet(tagFormatSimple, 22)
UTCTimeTagSet == UniversalTagSet(tagFormatSimple, 23)
ChoiceTagSet == <<>>
AnyTagSet == <<>>

None == [typ |-> "None"]

\* A value: its class, its typeId (None when the class has none), its tag
\* set, its base tag set and its payload.
Value(typ, typeId, tagSet, baseTagSet, val) ==
    [typ |-> typ, typeId |-> typeId, tagSet |-> tagSet,
     baseTagSet |-> baseTagSet, val |-> val]

endOfOctets == Value("EndOfOctets", "None", endOfOctetsTagSet, endOfOctetsTagSet, <<>>)

clone(value, val) == [value EXCEPT !.val = val]
cloneTagSet(value, tagSet) == [value EXCEPT !.tagSet = tagSet]

(***************************************************************************)
(* tagMap, typeMap and the per-codec supportIndefLenMode                   *)
(***************************************************************************)
tagMap ==
    << <<endOfOctetsTagSet, "EndOfOctetsEncoder">>,
       <<BooleanTagSet, "IntegerEncoder">>,
       <<IntegerTagSet, "IntegerEncoder">>,
       <<BitStringTagSet, "BitStringEncoder">>,
       <<OctetStringTagSet, "OctetStringEncoder">>,
       <<NullTagSet, "NullEncoder">>,
       <<ObjectIdentifierTagSet, "ObjectIdentifierEncoder">>,
       <<EnumeratedTagSet, "IntegerEncoder">>,
       <<RealTagSet, "RealEncoder">>,
       <<SequenceTagSet, "SequenceOfEncoder">>,
       <<SetTagSet, "SequenceOfEncoder">>,
       <<ChoiceTagSet, "ChoiceEncoder">>,
       <<UTF8StringTagSet, "OctetStringEncoder">>,
       <<IA5StringTagSet, "OctetStringEncoder">>,
       <<UTCTimeTagSet, "OctetStringEncoder">> >>

typeMap ==
    << <<"Set", "SequenceEncoder">>,
       <<"SetOf", "SequenceOfEncoder">>,
       <<"Sequence", "SequenceEncoder">>,
       <<"SequenceOf", "SequenceOfEncoder">>,
       <<"Choice", "ChoiceEncoder">>,
       <<"Any", "AnyEncoder">> >>

InMap(map, key) == \E i \in 1 .. Len(map) : map[i][1] = key
Lookup(map, key) == map[CHOOSE i \in 1 .. Len(map) : map[i][1] = key][2]

supportIndefLenMode(codec) ==
    IF codec \in {"IntegerEncoder", "NullEncoder", "ObjectIdentifierEncoder"}
    THEN 0 ELSE 1

(***************************************************************************)
(* Encoder.__call__: the choice of the concrete encoder                    *)
(***************************************************************************)
\* A variant of the choice that looks the typeId up before counting the tags
concreteEncoderTypeIdFirst(value) ==
    IF value.typeId # "None" /\ InMap(typeMap, value.typeId)
    THEN Ok(Lookup(typeMap, value.typeId))
    ELSE IF Len(value.tagSet) > 1 THEN Ok("ExplicitlyTaggedItemEncoder")
    ELSE IF InMap(tagMap, value.tagSet) THEN Ok(Lookup(tagMap, value.tagSet))
    ELSE IF InMap(tagMap, value.baseTagSet) THEN Ok(Lookup(tagMap, value.baseTagSet))
    ELSE Raise("No encoder for value")

concreteEncoder(value) ==
    IF Len(value.tagSet) > 1 THEN Ok("ExplicitlyTaggedItemEncoder")
    ELSE IF value.typeId # "None" /\ InMap(typeMap, value.typeId)
    THEN Ok(Lookup(typeMap, value.typeId))
    ELSE IF InMap(tagMap, value.tagSet) THEN Ok(Lookup(tagMap, value.tagSet))
    ELSE IF InMap(tagMap, value.baseTagSet) THEN Ok(Lookup(tagMap, value.baseTagSet))
    ELSE Raise("No encoder for value")

(***************************************************************************)
(* Results of encodeValue and of encode                                    *)
(***************************************************************************)
\* encodeValue returns (substrate, isConstructed); calls lists, in the order
\* they returned, the elements framed by every encode() call made on the way.
EncodedBy(substrate, isConstructed, calls) ==
    [ok |-> TRUE, substrate |-> substrate, isConstructed |-> isConstructed,
     calls |-> calls]
Encoded(substrate, isConstructed) == EncodedBy(substrate, isConstructed, <<>>)

Min(a, b) == IF a < b THEN a ELSE b

\* Python's s[lo:hi] on a sequence, 0 <= lo
Slice(s, lo, hi) == SubSeq(s, lo + 1, Min(hi, Len(s)))

RECURSIVE Encode(_, _, _)
RECURSIVE EncodeParts(_, _, _)

\* encodeFun: the Encoder instance the codecs call back into
encodeFun(value, defMode, maxChunkSize) == Encode(value, defMode, maxChunkSize)

(***************************************************************************)
(* EndOfOctetsEncoder, NullEncoder, ExplicitlyTaggedItemEncoder, AnyEncoder*)
(***************************************************************************)
\* A variant of EndOfOctetsEncoder.encodeValue with one content octet
EndOfOctetsEncoder_encodeValueOneOctet(value, defMode, maxChunkSize) ==
    Encoded(<<0>>, 0)

EndOfOctetsEncoder_encodeValue(value, defMode, maxChunkSize) == Encoded(null, 0)

NullEncoder_encodeValue(value, defMode, maxChunkSize) == Encoded(null, 0)

\* A variant of ExplicitlyTaggedItemEncoder.encodeValue that reports flag 0
ExplicitlyTaggedItemEncoder_encodeValueFlag0(value, defMode, maxChunkSize) ==
    LET stripped == cloneTagSet(value, SubSeq(value.tagSet, 1, Len(value.tagSet) - 1))
        r == encodeFun(stripped, defMode, maxChunkSize)
    IN  IF r.ok THEN EncodedBy(r.octets, 0, r.elems) ELSE r

ExplicitlyTaggedItemEncoder_encodeValue(value, defMode, maxChunkSize) ==
    LET stripped == cloneTagSet(value, SubSeq(value.tagSet, 1, Len(value.tagSet) - 1))
        r == encodeFun(stripped, defMode, maxChunkSize)
    IN  IF r.ok THEN EncodedBy(r.octets, 1, r.elems) ELSE r

\* A variant of AnyEncoder.encodeValue that reports flag 0 in either mode
AnyEncoder_encodeValueFlag0(value, defMode, maxChunkSize) ==
    Encoded(value.val, 0)

AnyEncoder_encodeValue(value, defMode, maxChunkSize) ==
    Encoded(value.val, IF defMode = 0 THEN 1 ELSE 0)

(***************************************************************************)
(* OctetStringEncoder.encodeValue                                          *)
(***************************************************************************)
RECURSIVE OctetStringChunkLoop(_, _, _, _, _, _)
OctetStringChunkLoop(value, defMode, maxChunkSize, pos, substrate, calls) ==
    LET v == clone(value, Slice(value.val, pos, pos + maxChunkSize))
    IN  IF v.val = <<>> THEN EncodedBy(substrate, 1, calls)
        ELSE LET r == encodeFun(v, defMode, maxChunkSize)
             IN  IF ~r.ok THEN r
                 ELSE OctetStringChunkLoop(value, defMode, maxChunkSize,
                                           pos + maxChunkSize, substrate \o r.octets,
                                           calls \o r.elems)

\* A variant of OctetStringEncoder.encodeValue that keeps maxChunkSize + 1
\* octets in one piece
OctetStringEncoder_encodeValueFitsOneMore(value, defMode, maxChunkSize) ==
    IF maxChunkSize = 0 \/ Len(value.val) <= maxChunkSize + 1
    THEN Encoded(value.val, 0)
    ELSE OctetStringChunkLoop(value, defMode, maxChunkSize, 0, null, <<>>)

OctetStringEncoder_encodeValue(value, defMode, maxChunkSize) ==
    IF maxChunkSize = 0 \/ Len(value.val) <= maxChunkSize
    THEN Encoded(value.val, 0)
    ELSE OctetStringChunkLoop(value, defMode, maxChunkSize, 0, null, <<>>)

(***************************************************************************)
(* BitStringEncoder.encodeValue                                            *)
(***************************************************************************)
\* value[p] << (7-j)
ShiftLeft(x, n) == x * (2 ^ n)

\* The packing loop over p; r is the dictionary r (its keys 0, 1, ... are
\* created in increasing order, so it is kept as the list of its values) and
\* j the last remainder computed (7 before the first iteration).
RECURSIVE BitStringPackLoop(_, _, _, _)
BitStringPackLoop(bits, p, r, j) ==
    IF p < Len(bits)
    THEN LET i == p \div 8
             jj == p % 8
             b == ShiftLeft(bits[p + 1], 7 - jj)
             rr == IF i + 1 > Len(r) THEN Append(r, b)
                   ELSE [r EXCEPT ![i + 1] = BitOr(@, b)]
         IN  BitStringPackLoop(bits, p + 1, rr, jj)
    ELSE [r |-> r, j |-> j]

RECURSIVE BitStringChunkLoop(_, _, _, _, _, _)
BitStringChunkLoop(value, defMode, maxChunkSize, pos, substrate, calls) ==
    LET v == clone(value, Slice(value.val, pos * 8, pos * 8 + maxChunkSize * 8))
    IN  IF v.val = <<>> THEN EncodedBy(substrate, 1, calls)
        ELSE LET r == encodeFun(v, defMode, maxChunkSize)
             IN  IF ~r.ok THEN r
                 ELSE BitStringChunkLoop(value, defMode, maxChunkSize,
                                         pos + maxChunkSize, substrate \o r.octets,
                                           calls \o r.elems)

\* A variant of BitStringEncoder.encodeValue that cuts chunks one octet wider
BitStringEncoder_encodeValueWiderChunks(value, defMode, maxChunkSize) ==
    IF maxChunkSize = 0 \/ Len(value.val) <= maxChunkSize * 8
    THEN LET packed == BitStringPackLoop(value.val, 0, <<>>, 7)
         IN  Encoded(int2oct(7 - packed.j) \o packed.r, 0)
    ELSE BitStringChunkLoop(value, defMode, maxChunkSize + 1, 0, null, <<>>)

\* A variant of BitStringEncoder.encodeValue whose first octet is the last
\* remainder j itself
BitStringEncoder_encodeValueWritesJ(value, defMode, maxChunkSize) ==
    IF maxChunkSize = 0 \/ Len(value.val) <= maxChunkSize * 8
    THEN LET packed == BitStringPackLoop(value.val, 0, <<>>, 7)
         IN  Encoded(int2oct(packed.j) \o packed.r, 0)
    ELSE BitStringChunkLoop(value, defMode, maxChunkSize, 0, null, <<>>)

BitStringEncoder_encodeValue(value, defMode, maxChunkSize) ==
    IF maxChunkSize = 0 \/ Len(value.val) <= maxChunkSize * 8
    THEN LET packed == BitStringPackLoop(value.val, 0, <<>>, 7)
         IN  Encoded(int2oct(7 - packed.j) \o packed.r, 0)
    ELSE BitStringChunkLoop(value, defMode, maxChunkSize, 0, null, <<>>)

(***************************************************************************)
(* ObjectIdentifierEncoder.encodeValue.                                    *)
(* A sub-identifier is an unbounded integer.  It is kept as the pair       *)
(* <<subid >> 7, subid & 0x7f>>, the two parts the code takes it apart     *)
(* into, so that sub-identifiers up to 2^38 can be written.                *)
(***************************************************************************)
SubId(n) == <<n \div 128, n % 128>>
SubIds(oid) == [i \in 1 .. Len(oid) |-> SubId(oid[i])]

\* The integer a sub-identifier stands for, where it is below 2^31
SubIdInt(subid) == subid[1] * 128 + subid[2]

\* A variant of precomputedValues with the two entries' octets exchanged
precomputedValuesExchanged ==
    << << SubIds(<<1, 3, 6, 1, 2>>), <<43, 6, 1, 4>> >>,
       << SubIds(<<1, 3, 6, 1, 4>>), <<43, 6, 1, 2>> >> >>

precomputedValues ==
    << << SubIds(<<1, 3, 6, 1, 2>>), <<43, 6, 1, 2>> >>,
       << SubIds(<<1, 3, 6, 1, 4>>), <<43, 6, 1, 4>> >> >>

\* A variant of the test subid > 0xFFFFFFFF that is also true of 0xFFFFFFFF
AboveFFFFFFFFOrEqual(subid) ==
    subid[1] > 33554431 \/ (subid[1] = 33554431 /\ subid[2] = 127)

\* subid > 0xFFFFFFFF: 0xFFFFFFFF >> 7 is 33554431
AboveFFFFFFFF(subid) == subid[1] > 33554431

RECURSIVE SubIdPackLoop(_, _)
SubIdPackLoop(subid, r) ==
    IF subid > 0 THEN SubIdPackLoop(subid \div 128, <<BitOr(128, subid % 128)>> \o r)
    ELSE r

\* subid > -1 and subid < 128 is subid >> 7 = 0, and subid < 0 is
\* subid >> 7 < 0
RECURSIVE SubIdsLoop(_, _)
SubIdsLoop(subids, octets) ==
    IF subids = <<>> THEN Encoded(octets, 0)
    ELSE LET subid == subids[1]
         IN  IF subid[1] = 0
             THEN SubIdsLoop(Tail(subids), octets \o <<subid[2]>>)
             ELSE IF subid[1] < 0 \/ AboveFFFFFFFF(subid)
             THEN Raise("SubId overflow")
             ELSE SubIdsLoop(Tail(subids),
                             octets \o SubIdPackLoop(subid[1], <<subid[2]>>))

\* The branch taken when the first five sub-identifiers are not in
\* precomputedValues: the first two sub-identifiers, then the loop
BuildFirstTwos(oid) ==
    IF Len(oid) < 2 THEN Raise("Short OID")
    ELSE LET subid == SubIdInt(oid[1]) * 40 + SubIdInt(oid[2])
         IN  IF subid < 0 \/ subid > 255
             THEN Raise("Initial sub-ID overflow")
             ELSE SubIdsLoop(Slice(oid, 2, Len(oid)), <<subid>>)

ObjectIdentifierEncoder_encodeValue(value, defMode, maxChunkSize) ==
    LET oid == value.val
    IN  IF InMap(precomputedValues, Slice(oid, 0, 5))
        THEN SubIdsLoop(Slice(oid, 5, Len(oid)),
                        Lookup(precomputedValues, Slice(oid, 0, 5)))
        ELSE BuildFirstTwos(oid)

(***************************************************************************)
(* RealEncoder.encodeValue.  A Real is plus or minus infinity or a triple  *)
(* (m, b, e) of integers; the loop that turns a float mantissa into an     *)
(* integer never runs for an integer mantissa.  The exponent loop is       *)
(* evaluated here for e >= 0 only; for e < 0 see the step machine below.   *)
(***************************************************************************)
RECURSIVE DecimalDigits(_)
DecimalDigits(n) ==
    IF n < 10 THEN <<48 + n>> ELSE DecimalDigits(n \div 10) \o <<48 + (n % 10)>>

\* '%d' % n as ASCII octets
FormatD(n) == IF n < 0 THEN <<45>> \o DecimalDigits(0 - n) ELSE DecimalDigits(n)

RECURSIVE RealNormalizeLoop(_, _)
RealNormalizeLoop(mm, ee) ==
    IF mm % 2 = 0 THEN RealNormalizeLoop(mm \div 2, ee + 1)
    ELSE [m |-> mm, e |-> ee]

RECURSIVE RealExponentLoop(_, _)
RealExponentLoop(ee, eeo) ==
    IF ee # 0 THEN RealExponentLoop(ee \div 256, int2oct(ee % 256) \o eeo)
    ELSE eeo

RECURSIVE RealMantissaLoop(_, _)
RealMantissaLoop(mm, ppo) ==
    IF mm # 0 THEN RealMantissaLoop(mm \div 256, int2oct(mm % 256) \o ppo)
    ELSE ppo

\* The first octet and the exponent octets, from the exponent octets of the loop
RealExponentField(fo0, eeo) ==
    LET n == Len(eeo)
    IN  IF n > 255 THEN Raise("Real exponent overflow")
        ELSE IF n = 1 THEN [ok |-> TRUE, fo |-> fo0, eo |-> eeo]
        ELSE IF n = 2 THEN [ok |-> TRUE, fo |-> BitOr(fo0, 1), eo |-> eeo]
        ELSE IF n = 3 THEN [ok |-> TRUE, fo |-> BitOr(fo0, 2), eo |-> eeo]
        ELSE [ok |-> TRUE, fo |-> BitOr(fo0, 3),
              eo |-> int2oct((n \div 255) + 1) \o eeo]

RealEncoder_encodeValue(value, defMode, maxChunkSize) ==
    IF value.val.kind = "inf" THEN Encoded(int2oct(64), 0)
    ELSE IF value.val.kind = "-inf" THEN Encoded(int2oct(65), 0)
    ELSE LET m0 == value.val.m
             b == value.val.b
             e0 == value.val.e
         IN  IF m0 = 0 THEN Encoded(null, 0)
             ELSE IF b = 10
             THEN Encoded(<<3>> \o FormatD(m0) \o <<69>>
                              \o (IF e0 = 0 THEN <<43>> ELSE <<>>) \o FormatD(e0), 0)
             ELSE IF b = 2
             THEN LET fo0 == IF m0 < 0 THEN BitOr(128, 64) ELSE 128
                      m1 == IF m0 < 0 THEN 0 - m0 ELSE m0
                      norm == RealNormalizeLoop(m1, e0)
                      f == RealExponentField(fo0, RealExponentLoop(norm.e, null))
                  IN  IF ~f.ok THEN f
                      ELSE Encoded(int2oct(f.fo) \o f.eo
                                       \o RealMantissaLoop(norm.m, null), 0)
             ELSE Raise("Prohibited Real base")

(***************************************************************************)
(* SequenceEncoder, SequenceOfEncoder, ChoiceEncoder                       *)
(***************************************************************************)
\* value.setDefaultComponents(): an absent component that has a declared
\* default takes it.
setDefaultComponents(value) ==
    [value EXCEPT !.val.components =
        [i \in 1 .. Len(value.val.components) |->
            IF value.val.components[i].typ = "None"
               /\ value.val.defaults[i].typ # "None"
            THEN value.val.defaults[i]
            ELSE value.val.components[i]]]

\* value.verifySizeSpec(): raises when the size constraint is not met
verifySizeSpec(value) == Len(value.val.components) <= value.val.maxSize

getDefaultComponentByPosition(value, idx) == value.val.defaults[idx + 1]

\* component == value[idx]
SameValue(a, b) == a.typ = b.typ /\ a.val = b.val

\* A variant of the loop of SequenceEncoder.encodeValue that also encodes the
\* components equal to their default
RECURSIVE SequenceLoopKeepsDefaults(_, _, _, _, _, _)
SequenceLoopKeepsDefaults(value, defMode, maxChunkSize, idx0, substrate, calls) ==
    IF idx0 > 0
    THEN LET idx == idx0 - 1
             item == value.val.components[idx + 1]
         IN  IF item.typ = "None"
             THEN SequenceLoopKeepsDefaults(value, defMode, maxChunkSize, idx,
                                            substrate, calls)
             ELSE LET r == encodeFun(item, defMode, maxChunkSize)
                  IN  IF ~r.ok THEN r
                      ELSE SequenceLoopKeepsDefaults(value, defMode, maxChunkSize, idx,
                                                     r.octets \o substrate,
                                                     r.elems \o calls)
    ELSE EncodedBy(substrate, 1, calls)

RECURSIVE SequenceLoop(_, _, _, _, _, _)
SequenceLoop(value, defMode, maxChunkSize, idx0, substrate, calls) ==
    IF idx0 > 0
    THEN LET idx == idx0 - 1
             item == value.val.components[idx + 1]
             component == getDefaultComponentByPosition(value, idx)
         IN  IF item.typ = "None"
             THEN SequenceLoop(value, defMode, maxChunkSize, idx, substrate, calls)
             ELSE IF component.typ # "None" /\ SameValue(component, item)
             THEN SequenceLoop(value, defMode, maxChunkSize, idx, substrate, calls)
             ELSE LET r == encodeFun(item, defMode, maxChunkSize)
                  IN  IF ~r.ok THEN r
                      ELSE SequenceLoop(value, defMode, maxChunkSize, idx,
                                        r.octets \o substrate, r.elems \o calls)
    ELSE EncodedBy(substrate, 1, calls)

SequenceEncoder_encodeValue(value0, defMode, maxChunkSize) ==
    LET value == setDefaultComponents(value0)
    IN  IF ~verifySizeSpec(value) THEN Raise("size constraint")
        ELSE SequenceLoop(value, defMode, maxChunkSize, Len(value.val.components), null,
                      <<>>)

RECURSIVE SequenceOfLoop(_, _, _, _, _, _)
SequenceOfLoop(value, defMode, maxChunkSize, idx0, substrate, calls) ==
    IF idx0 > 0
    THEN LET idx == idx0 - 1
             r == encodeFun(value.val.components[idx + 1], defMode, maxChunkSize)
         IN  IF ~r.ok THEN r
             ELSE SequenceOfLoop(value, defMode, maxChunkSize, idx,
                                 r.octets \o substrate, r.elems \o calls)
    ELSE EncodedBy(substrate, 1, calls)

SequenceOfEncoder_encodeValue(value, defMode, maxChunkSize) ==
    IF ~verifySizeSpec(value) THEN Raise("size constraint")
    ELSE SequenceOfLoop(value, defMode, maxChunkSize, Len(value.val.components), null,
                      <<>>)

ChoiceEncoder_encodeValue(value, defMode, maxChunkSize) ==
    LET r == encodeFun(value.val, defMode, maxChunkSize)
    IN  IF r.ok THEN EncodedBy(r.octets, 1, r.elems) ELSE r

(***************************************************************************)
(* AbstractItemEncoder.encode and Encoder.__call__                         *)
(***************************************************************************)
encodeValue(codec, value, defMode, maxChunkSize) ==
    CASE codec = "EndOfOctetsEncoder" ->
            EndOfOctetsEncoder_encodeValue(value, defMode, maxChunkSize)
      [] codec = "ExplicitlyTaggedItemEncoder" ->
            ExplicitlyTaggedItemEncoder_encodeValue(value, defMode, maxChunkSize)
      [] codec = "IntegerEncoder" ->
            LET r == IntegerEncoder_encodeValue(value.val)
            IN  Encoded(r.substrate, r.isConstructed)
      [] codec = "BitStringEncoder" ->
            BitStringEncoder_encodeValue(value, defMode, maxChunkSize)
      [] codec = "OctetStringEncoder" ->
            OctetStringEncoder_encodeValue(value, defMode, maxChunkSize)
      [] codec = "NullEncoder" ->
            NullEncoder_encodeValue(value, defMode, maxChunkSize)
      [] codec = "ObjectIdentifierEncoder" ->
            ObjectIdentifierEncoder_encodeValue(value, defMode, maxChunkSize)
      [] codec = "RealEncoder" ->
            RealEncoder_encodeValue(value, defMode, maxChunkSize)
      [] codec = "SequenceEncoder" ->
            SequenceEncoder_encodeValue(value, defMode, maxChunkSize)
      [] codec = "SequenceOfEncoder" ->
            SequenceOfEncoder_encodeValue(value, defMode, maxChunkSize)
      [] codec = "ChoiceEncoder" ->
            ChoiceEncoder_encodeValue(value, defMode, maxChunkSize)
      [] codec = "AnyEncoder" ->
            AnyEncoder_encodeValue(value, defMode, maxChunkSize)

\* A variant of _encodeEndOfOctets that never adds the marker
encodeEndOfOctetsNever(codec, defMode) ==
    [ok |-> TRUE, octets |-> null, elems |-> <<>>]

\* _encodeEndOfOctets: encodeFun(eoo.endOfOctets, defMode), maxChunkSize left
\* at its default 0
encodeEndOfOctets(codec, defMode) ==
    IF defMode # 0 \/ supportIndefLenMode(codec) = 0
    THEN [ok |-> TRUE, octets |-> null, elems |-> <<>>]
    ELSE encodeFun(endOfOctets, defMode, 0)

\* encode returns its octets; the record also keeps the pieces they are made
\* of: the codec and what it returned, the mode asked for and the mode the
\* framing used, the identifier, length and end-of-contents octets, and the
\* elements framed by the calls made below it.
encodeFrame(codec, value, defMode0, r) ==
    IF ~r.ok THEN r
    ELSE IF value.tagSet # <<>>
    THEN LET defMode == IF r.isConstructed = 0 THEN 1 ELSE defMode0
             tagOctets == encodeTag(value.tagSet[Len(value.tagSet)], r.isConstructed)
             lengthOctets == encodeLength(NatToBig(Len(r.substrate)), defMode,
                                          supportIndefLenMode(codec))
             eoc == encodeEndOfOctets(codec, defMode)
         IN  IF ~lengthOctets.ok THEN lengthOctets
             ELSE IF ~eoc.ok THEN eoc
             ELSE [ok |-> TRUE, tagged |-> TRUE, codec |-> codec,
                   typ |-> value.typ, requested |-> defMode0,
                   isConstructed |-> r.isConstructed, defMode |-> defMode,
                   tagOctets |-> tagOctets, lengthOctets |-> lengthOctets.val,
                   substrate |-> r.substrate, eoc |-> eoc.octets,
                   octets |-> tagOctets \o lengthOctets.val \o r.substrate
                                 \o eoc.octets,
                   calls |-> r.calls \o eoc.elems]
    ELSE [ok |-> TRUE, tagged |-> FALSE, codec |-> codec,
          typ |-> value.typ, requested |-> defMode0,
          isConstructed |-> r.isConstructed, defMode |-> defMode0,
          tagOctets |-> <<>>, lengthOctets |-> <<>>,
          substrate |-> r.substrate, eoc |-> <<>>,
          octets |-> r.substrate,
          calls |-> r.calls]

AbstractItemEncoder_encode(codec, value, defMode0, maxChunkSize) ==
    encodeFrame(codec, value, defMode0,
                encodeValue(codec, value, defMode0, maxChunkSize))

EncodeParts(value, defMode, maxChunkSize) ==
    LET c == concreteEncoder(value)
    IN  IF ~c.ok THEN c
        ELSE AbstractItemEncoder_encode(c.val, value, defMode, maxChunkSize)

Element(p) == [f \in (DOMAIN p) \ {"calls"} |-> p[f]]

\* Encoder.__call__: the octets, and the elements framed on the way, the
\* value's own element last
EncodeResult(p) ==
    IF p.ok
    THEN [ok |-> TRUE, octets |-> p.octets, elems |-> Append(p.calls, Element(p))]
    ELSE p

Encode(value, defMode, maxChunkSize) ==
    EncodeResult(EncodeParts(value, defMode, maxChunkSize))

(***************************************************************************)
(* Reading an element back: identifier, definite length, content           *)
(***************************************************************************)
ReadElement(octets) ==
    LET t == decodeTag(octets)
    IN  IF ~t.ok THEN [ok |-> FALSE]
        ELSE LET l == decodeLength(t.rest)
             IN  IF ~l.ok \/ l.indefinite \/ Len(l.length) > 3 THEN [ok |-> FALSE]
                 ELSE LET n == BigToNat(l.length)
                      IN  IF Len(l.rest) < n THEN [ok |-> FALSE]
                          ELSE [ok |-> TRUE, class |-> t.class,
                                constructed |-> t.constructed, number |-> t.number,
                                length |-> n,
                                content |-> SubSeq(l.rest, 1, n),
                                rest |-> SubSeq(l.rest, n + 1, Len(l.rest))]

\* A concatenation of complete elements, read from left to right
RECURSIVE ReadAll(_, _)
ReadAll(octets, acc) ==
    IF octets = <<>> THEN [ok |-> TRUE, elems |-> acc]
    ELSE LET el == ReadElement(octets)
         IN  IF ~el.ok THEN [ok |-> FALSE, elems |-> acc]
             ELSE ReadAll(el.rest, Append(acc, el))

(***************************************************************************)
(* Decoding rules of the specification: OBJECT IDENTIFIER and binary REAL  *)
(***************************************************************************)
\* The sub-identifiers of the content octets: base 128, high bit set on all
\* but the last octet of each; one that starts with octet 0x80 is rejected,
\* and so is one that the content ends in the middle of.  acc is the number
\* read from the octets before the last, the sub-identifier's upper part.
RECURSIVE decodeSubIds(_, _, _, _)
decodeSubIds(octets, acc, started, subids) ==
    IF octets = <<>> THEN [ok |-> ~started, subids |-> subids]
    ELSE IF ~started /\ octets[1] = 128 THEN [ok |-> FALSE, subids |-> subids]
    ELSE IF octets[1] >= 128
    THEN decodeSubIds(Tail(octets), acc * 128 + (octets[1] % 128), TRUE, subids)
    ELSE decodeSubIds(Tail(octets), 0, FALSE, Append(subids, <<acc, octets[1]>>))

\* The first sub-identifier x stands for (0, x), (1, x - 40) or (2, x - 80)
decodeObjectIdentifier(octets) ==
    LET r == decodeSubIds(octets, 0, FALSE, <<>>)
    IN  IF ~r.ok \/ r.subids = <<>> THEN [ok |-> FALSE, oid |-> <<>>]
        ELSE LET x == SubIdInt(r.subids[1])
                 head == IF x < 40 THEN <<0, x>>
                         ELSE IF x < 80 THEN <<1, x - 40>>
                         ELSE <<2, x - 80>>
             IN  [ok |-> TRUE, oid |-> SubIds(head) \o Tail(r.subids)]

RECURSIVE decodeUnsigned(_, _)
decodeUnsigned(octets, acc) ==
    IF octets = <<>> THEN acc ELSE decodeUnsigned(Tail(octets), acc * 256 + octets[1])

\* 1SBBFFEE || exponent || mantissa
decodeRealBinary(octets) ==
    IF octets = <<>> \/ octets[1] < 128 THEN [ok |-> FALSE]
    ELSE LET first == octets[1]
             EE == first % 4
             FF == (first \div 4) % 4
             BB == (first \div 16) % 4
             S == (first \div 64) % 2
             counted == EE = 3
             n == IF counted THEN (IF Len(octets) >= 2 THEN octets[2] ELSE 0)
                  ELSE EE + 1
             from == IF counted THEN 3 ELSE 2
         IN  IF BB = 3 \/ (counted /\ Len(octets) < 2) \/ n = 0
                \/ Len(octets) < from + n - 1
             THEN [ok |-> FALSE]
             ELSE [ok |-> TRUE, negative |-> S = 1,
                   base |-> IF BB = 0 THEN 2 ELSE IF BB = 1 THEN 8 ELSE 16,
                   scale |-> FF, exponentOctets |-> n,
                   exponent |-> decodeSigned(SubSeq(octets, from, from + n - 1)),
                   mantissa |-> decodeUnsigned(SubSeq(octets, from + n, Len(octets)), 0)]

(***************************************************************************)
(* Inputs                                                                  *)
(***************************************************************************)
Pow2(k) == 2 ^ k

IntegerInputs ==
    (-MaxInt .. MaxInt)
    \cup UNION { ((Pow2(k) - IntWindow) .. (Pow2(k) + IntWindow))
                 \cup ((0 - Pow2(k) - IntWindow) .. (0 - Pow2(k) + IntWindow))
                 : k \in {15, 16, 23, 24} }

TagClasses == {0, 64, 128, 192}
TagFormats == {0, 32}
TagIds ==
    (0 .. MaxTagId)
    \cup {Pow2(14) - 1, Pow2(14), Pow2(21) - 1, Pow2(21), Pow2(28) - 1}
Tags == TagClasses \X TagFormats \X TagIds

Repeat(x, n) == [i \in 1 .. n |-> x]

\* Lengths below 2^31, as numbers, and lengths of up to MaxBigLen + 1 digits.
NatLengths == (0 .. MaxLength) \cup {65535, 65536, 16777215, 16777216}
BigLengths ==
    { <<d>> \o Repeat(f, n) :
          d \in {1, 255}, f \in {0, 255}, n \in (MaxBigLen - 8) .. MaxBigLen }

(***************************************************************************)
(* Values handed to encode                                                 *)
(***************************************************************************)
Integer(n) == Value("Integer", "None", IntegerTagSet, IntegerTagSet, n)
Boolean(n) == Value("Boolean", "None", BooleanTagSet, BooleanTagSet, n)
Enumerated(n) == Value("Enumerated", "None", EnumeratedTagSet, EnumeratedTagSet, n)
Null == Value("Null", "None", NullTagSet, NullTagSet, <<>>)
OctetString(s, tagSet) == Value("OctetString", "None", tagSet, OctetStringTagSet, s)
IA5String(s) == Value("IA5String", "None", IA5StringTagSet, IA5StringTagSet, s)
BitString(bits, tagSet) == Value("BitString", "None", tagSet, BitStringTagSet, bits)
ObjectIdentifierOf(subids) ==
    Value("ObjectIdentifier", "None", ObjectIdentifierTagSet, ObjectIdentifierTagSet,
          subids)
ObjectIdentifier(oid) == ObjectIdentifierOf(SubIds(oid))
Real(mm, b, ee) ==
    Value("Real", "None", RealTagSet, RealTagSet, [kind |-> "num", m |-> mm, b |-> b, e |-> ee])
RealInf(kind) ==
    Value("Real", "None", RealTagSet, RealTagSet, [kind |-> kind, m |-> 0, b |-> 2, e |-> 0])
Constructed(typ, tagSet, baseTagSet, components, defaults, maxSize) ==
    Value(typ, typ, tagSet, baseTagSet,
          [components |-> components, defaults |-> defaults, maxSize |-> maxSize])
NoDefaults(n) == [i \in 1 .. n |-> None]
Sequence(components, defaults) ==
    Constructed("Sequence", SequenceTagSet, SequenceTagSet, components, defaults,
                Len(components))
Set(components, defaults) ==
    Constructed("Set", SetTagSet, SetTagSet, components, defaults, Len(components))
SequenceOf(components, maxSize) ==
    Constructed("SequenceOf", SequenceTagSet, SequenceTagSet, components,
                NoDefaults(Len(components)), maxSize)
SetOf(components, maxSize) ==
    Constructed("SetOf", SetTagSet, SetTagSet, components,
                NoDefaults(Len(components)), maxSize)
Choice(component, tagSet) == Value("Choice", "Choice", tagSet, ChoiceTagSet, component)
univAny(octets, tagSet) == Value("Any", "Any", tagSet, AnyTagSet, octets)

\* 'Quick brown fox'
Quick == <<81, 117, 105, 99, 107, 32, 98, 114, 111, 119, 110, 32, 102, 111, 120>>
TestBits == <<1, 0, 1, 0, 1, 0, 0, 1, 1, 0, 0, 0, 1, 0, 1>>

MaxChunkSize == 5
LongLen == 130
LongString == [i \in 1 .. LongLen |-> i % 256]

ContextTag(form, id) == << <<tagClassContext, form, id>> >>
ExplicitTag(tagSet, class, form, id) == Append(tagSet, <<class, form, id>>)

Strings == << <<>>, <<65>>, SubSeq(Quick, 1, 5), SubSeq(Quick, 1, 6), Quick >>

StringTagSets ==
    << OctetStringTagSet,
       ContextTag(tagFormatSimple, 0),
       ContextTag(tagFormatConstructed, 1),
       << <<tagClassPrivate, tagFormatSimple, 200>> >>,
       ExplicitTag(OctetStringTagSet, tagClassApplication, tagFormatSimple, 5),
       ExplicitTag(ExplicitTag(OctetStringTagSet, tagClassApplication,
                               tagFormatSimple, 5),
                   tagClassContext, tagFormatConstructed, 2) >>

\* The octet strings the dispatcher hands to OctetStringEncoder: one tag
OctetStrings ==
    [k \in 1 .. (Len(Strings) * 4) |->
        OctetString(Strings[((k - 1) % Len(Strings)) + 1],
                    StringTagSets[((k - 1) \div Len(Strings)) + 1])]

TaggedOctetStrings ==
    [k \in 1 .. (Len(Strings) * Len(StringTagSets)) |->
        OctetString(Strings[((k - 1) % Len(Strings)) + 1],
                    StringTagSets[((k - 1) \div Len(Strings)) + 1])]

BitStrings ==
    << BitString(<<>>, BitStringTagSet),
       BitString(<<1>>, BitStringTagSet),
       BitString(SubSeq(TestBits, 1, 8), BitStringTagSet),
       BitString(SubSeq(TestBits, 1, 9), BitStringTagSet),
       BitString(TestBits, BitStringTagSet),
       BitString(TestBits \o <<1, 1>>, ContextTag(tagFormatSimple, 3)),
       BitString(TestBits,
                 ExplicitTag(BitStringTagSet, tagClassContext, tagFormatConstructed, 4)) >>

Scalars ==
    << Integer(0), Integer(127), Integer(128), Integer(-129), Boolean(1),
       Enumerated(5), Null, endOfOctets, IA5String(Quick),
       ObjectIdentifier(<<1, 3, 6, 0, 1048574>>),
       ObjectIdentifier(<<1, 3, 6, 1, 2, 1>>),
       ObjectIdentifier(<<1>>),
       Real(1, 2, 0), Real(3, 2, 5), Real(-5, 2, 0), Real(4, 2, 300),
       Real(123, 10, 11), Real(-7, 10, 0), Real(0, 2, 0), Real(1, 8, 0),
       RealInf("inf"), RealInf("-inf"),
       Value("Unknown", "None", ContextTag(tagFormatSimple, 9),
             << <<tagClassUniversal, tagFormatSimple, 29>> >>, <<>>) >>

AnyValues ==
    << univAny(<<5>>, AnyTagSet),
       univAny(<<5, 0>>, AnyTagSet),
       univAny(<<4, 1, 65, 5, 0>>, AnyTagSet),
       univAny(<<4, 1, 65>>, ContextTag(tagFormatSimple, 6)),
       univAny(<<5>>, ContextTag(tagFormatConstructed, 7)) >>

QuickLower == OctetString(<<113, 117, 105, 99, 107>>, OctetStringTagSet)

ConstructedValues ==
    << Sequence(<<Null, QuickLower, Integer(1)>>, <<None, None, Integer(33)>>),
       Sequence(<<Null, None, Integer(33)>>, <<None, None, Integer(33)>>),
       Sequence(<<Null, None, None>>, <<None, None, Integer(33)>>),
       Sequence(<<>>, <<>>),
       Set(<<Integer(5), OctetString(Quick, OctetStringTagSet)>>, NoDefaults(2)),
       Sequence(<<univAny(<<5>>, AnyTagSet)>>, NoDefaults(1)),
       Sequence(<<univAny(<<5, 0>>, AnyTagSet), Integer(2)>>, NoDefaults(2)),
       Sequence(<<Sequence(<<QuickLower>>, NoDefaults(1)), BitString(TestBits, BitStringTagSet)>>,
                NoDefaults(2)),
       SequenceOf(<<Integer(1), Integer(128)>>, 2),
       SequenceOf(<<>>, 0),
       SequenceOf(<<Integer(1), Integer(2)>>, 1),
       SetOf(<<OctetString(Quick, OctetStringTagSet), Null>>, 2),
       Constructed("Sequence", ExplicitTag(SequenceTagSet, tagClassContext,
                                           tagFormatConstructed, 1),
                   SequenceTagSet, <<Integer(7)>>, NoDefaults(1), 1),
       Choice(OctetString(Quick, OctetStringTagSet), ChoiceTagSet),
       Choice(Integer(3), ContextTag(tagFormatConstructed, 8)),
       Choice(univAny(<<5>>, AnyTagSet), ChoiceTagSet),
       Sequence(<<Choice(univAny(<<5, 0>>, AnyTagSet), ChoiceTagSet)>>, NoDefaults(1)),
       Sequence(<<ObjectIdentifier(<<1>>)>>, NoDefaults(1)) >>

ShortValues == TaggedOctetStrings \o BitStrings \o Scalars \o AnyValues \o ConstructedValues

LongValues ==
    << OctetString(LongString, OctetStringTagSet),
       OctetString(LongString,
                   ExplicitTag(OctetStringTagSet, tagClassApplication, tagFormatSimple, 5)),
       Sequence(<<OctetString(LongString, OctetStringTagSet)>>, NoDefaults(1)) >>

Values == ShortValues \o LongValues

ChunkSizes(i) ==
    IF i <= Len(ShortValues) THEN 0 .. MaxChunkSize
    ELSE {0, LongLen \div 2, LongLen}

UnknownValue ==
    Value("Unknown", "None", ContextTag(tagFormatSimple, 9),
          << <<tagClassUniversal, tagFormatSimple, 29>> >>, <<>>)

\* The values handed to SequenceEncoder.encodeValue
SequenceInputs ==
    << Sequence(<<Null, QuickLower, Integer(1)>>, <<None, None, Integer(33)>>),
       Sequence(<<Null, None, Integer(33)>>, <<None, None, Integer(33)>>),
       Sequence(<<Null, None, None>>, <<None, None, Integer(33)>>),
       Sequence(<<Integer(1), Integer(2), Integer(3)>>, NoDefaults(3)),
       Sequence(<<Integer(33), Integer(33)>>, <<Integer(33), Integer(34)>>),
       Sequence(<<>>, <<>>),
       Set(<<Integer(5), OctetString(Quick, OctetStringTagSet)>>, NoDefaults(2)),
       Set(<<OctetString(Quick, OctetStringTagSet), None, Boolean(1)>>,
           <<None, Integer(7), Boolean(1)>>),
       Sequence(<<Sequence(<<QuickLower, Null>>, NoDefaults(2)), Integer(2)>>,
                NoDefaults(2)),
       Sequence(<<Integer(1), UnknownValue>>, NoDefaults(2)),
       Constructed("Sequence", SequenceTagSet, SequenceTagSet,
                   <<Integer(1), Integer(2)>>, NoDefaults(2), 1) >>

MaxOidSecond == 260
OidFirsts == -1 .. 3
OidSeconds == (-1 .. 3) \cup (37 .. 50) \cup (78 .. 90) \cup (170 .. 180) \cup {MaxOidSecond}
OidTails ==
    { <<>>, <<0>>, <<127>>, <<128>>, <<16383, 16384>>, <<6, 1, 2, 1>>, <<6, 1, 4>>,
      <<1, 1048574>>, <<5, -1>>, <<6, 1, 2, -1>>, <<6, 1, 4, 128, 0>> }

\* OIDs with fewer than two sub-identifiers
ShortOids == { SubIds(<<>>), SubIds(<<0>>), SubIds(<<1>>), SubIds(<<-1>>), SubIds(<<7>>) }

\* 2^31 - 1, 2^31, 0xFFFFFFFF, 0xFFFFFFFF + 1 and 2^37 + 5
WideSubIds ==
    { <<16777215, 127>>, <<16777216, 0>>, <<33554431, 127>>, <<33554432, 0>>,
      <<1073741824, 5>> }

WideOids ==
    { SubIds(head) \o <<w>> \o SubIds(tail) :
          head \in { <<1, 3>>, <<2, 100>>, <<1, 3, 6, 1, 2>>, <<1, 3, 6, 1, 4, 1>> },
          w \in WideSubIds, tail \in { <<>>, <<5>> } }

Oids ==
    { SubIds(<<first, second>> \o rest) :
          first \in OidFirsts, second \in OidSeconds, rest \in OidTails }
    \cup ShortOids \cup WideOids

MaxMantissa == 6
RealMantissas == (-MaxMantissa .. MaxMantissa) \cup {255, 256, 65536}
RealBases == {2, 8, 10}
RealExponents ==
    (0 .. 4) \cup (126 .. 129) \cup (254 .. 257) \cup {32767, 32768, 65535, 65536,
                                                       8388607, 8388608, 16777216}

(***************************************************************************)
(* The state machine: each behaviour is one call of one entry point of the *)
(* encoder, which is a library of functions without state of its own.      *)
(***************************************************************************)
\* arg and res before any call
NoCall == [idle |-> TRUE]

Init ==
    /\ op = "idle"
    /\ arg = NoCall
    /\ res = NoCall
    /\ pc = "idle"
    /\ m = 0
    /\ e = 0
    /\ eo = <<>>
    /\ po = <<>>
    /\ fo = 0

CallEncodeTag ==
    /\ op = "idle"
    /\ \E t \in Tags, isConstructed \in {0, 1} :
           /\ op' = "encodeTag"
           /\ arg' = [t |-> t, isConstructed |-> isConstructed]
           /\ res' = [octets |-> encodeTag(t, isConstructed)]
           /\ UNCHANGED realVars

\* arg.n is the length as a number where it is below 2^31, and -1 elsewhere
CallEncodeLength ==
    /\ op = "idle"
    /\ \E defMode \in {0, 1}, supportIndef \in {0, 1} :
           \/ \E n \in NatLengths :
                 /\ op' = "encodeLength"
                 /\ arg' = [length |-> NatToBig(n), n |-> n, defMode |-> defMode,
                            supportIndef |-> supportIndef]
                 /\ res' = encodeLength(NatToBig(n), defMode, supportIndef)
                 /\ UNCHANGED realVars
           \/ \E length \in BigLengths :
                 /\ op' = "encodeLength"
                 /\ arg' = [length |-> length, n |-> -1, defMode |-> defMode,
                            supportIndef |-> supportIndef]
                 /\ res' = encodeLength(length, defMode, supportIndef)
                 /\ UNCHANGED realVars

CallIntegerEncodeValue ==
    /\ op = "idle"
    /\ \E value \in IntegerInputs :
           /\ op' = "IntegerEncoder.encodeValue"
           /\ arg' = [value |-> Integer(value)]
           /\ res' = IntegerEncoder_encodeValue(value)
           /\ UNCHANGED realVars

CallOctetStringEncodeValue ==
    /\ op = "idle"
    /\ \E i \in 1 .. Len(OctetStrings), defMode \in {0, 1},
          maxChunkSize \in 0 .. MaxChunkSize :
           /\ op' = "OctetStringEncoder.encodeValue"
           /\ arg' = [value |-> OctetStrings[i], defMode |-> defMode,
                      maxChunkSize |-> maxChunkSize]
           /\ res' = OctetStringEncoder_encodeValue(OctetStrings[i], defMode, maxChunkSize)
           /\ UNCHANGED realVars

CallObjectIdentifierEncodeValue ==
    /\ op = "idle"
    /\ \E oid \in Oids :
           /\ op' = "ObjectIdentifierEncoder.encodeValue"
           /\ arg' = [value |-> ObjectIdentifierOf(oid)]
           /\ res' = ObjectIdentifierEncoder_encodeValue(ObjectIdentifierOf(oid), 1, 0)
           /\ UNCHANGED realVars

CallRealEncodeValue ==
    /\ op = "idle"
    /\ \E mm \in RealMantissas, b \in RealBases, ee \in RealExponents :
           /\ op' = "RealEncoder.encodeValue"
           /\ arg' = [value |-> Real(mm, b, ee)]
           /\ res' = RealEncoder_encodeValue(Real(mm, b, ee), 1, 0)
           /\ UNCHANGED realVars

CallEncode ==
    /\ op = "idle"
    /\ \E i \in 1 .. Len(Values), defMode \in {0, 1} :
           \E maxChunkSize \in ChunkSizes(i) :
               /\ op' = "encode"
               /\ arg' = [value |-> Values[i], defMode |-> defMode,
                          maxChunkSize |-> maxChunkSize]
               /\ res' = encodeFun(Values[i], defMode, maxChunkSize)
               /\ UNCHANGED realVars

\* Every bit sequence of up to MaxBits bits, and longer ones that split into
\* three and more chunks
MaxBits == 9

LongBits ==
    { TestBits, TestBits \o <<1>>, TestBits \o <<1, 1>>,
      TestBits \o <<0, 1, 1, 0, 1, 0, 0, 1, 0>> }

BitSequences == UNION { [1 .. n -> {0, 1}] : n \in 0 .. MaxBits } \cup LongBits

BitStringTagSets == { BitStringTagSet, ContextTag(tagFormatSimple, 3) }

CallBitStringEncodeValue ==
    /\ op = "idle"
    /\ \E bits \in BitSequences, tagSet \in BitStringTagSets, defMode \in {0, 1},
          maxChunkSize \in 0 .. MaxChunkSize :
           /\ op' = "BitStringEncoder.encodeValue"
           /\ arg' = [value |-> BitString(bits, tagSet), defMode |-> defMode,
                      maxChunkSize |-> maxChunkSize]
           /\ res' = BitStringEncoder_encodeValue(BitString(bits, tagSet), defMode,
                                                  maxChunkSize)
           /\ UNCHANGED realVars

CallSequenceEncodeValue ==
    /\ op = "idle"
    /\ \E i \in 1 .. Len(SequenceInputs), defMode \in {0, 1},
          maxChunkSize \in 0 .. MaxChunkSize :
           /\ op' = "SequenceEncoder.encodeValue"
           /\ arg' = [value |-> SequenceInputs[i], defMode |-> defMode,
                      maxChunkSize |-> maxChunkSize]
           /\ res' = SequenceEncoder_encodeValue(SequenceInputs[i], defMode, maxChunkSize)
           /\ UNCHANGED realVars

Next ==
    \/ CallEncodeTag
    \/ CallEncodeLength
    \/ CallIntegerEncodeValue
    \/ CallOctetStringEncodeValue
    \/ CallObjectIdentifierEncodeValue
    \/ CallRealEncodeValue
    \/ CallEncode
    \/ CallSequenceEncodeValue
    \/ CallBitStringEncodeValue

Spec == Init /\ [][Next]_vars

(***************************************************************************)
(* RealEncoder.encodeValue step by step: one action per loop of the code,  *)
(* each firing once per iteration.  pc is the position in the method; m, e *)
(* fo, eo and po are its local variables.                                  *)
(***************************************************************************)
MaxStepMantissa == 6
MaxStepExponent == 4
MaxExponentOctets == 6

StepExponents == (-MaxStepExponent .. MaxStepExponent) \cup {255, 256, 300}

RealStart ==
    \E mm \in -MaxStepMantissa .. MaxStepMantissa, b \in RealBases, ee \in StepExponents :
        /\ pc = "idle"
        /\ eo' = null
        /\ po' = null
        /\ IF mm = 0 \/ b = 10
           THEN /\ pc' = "done"
                /\ m' = mm /\ e' = ee /\ fo' = 0
           ELSE IF b = 2
           THEN /\ pc' = "normalize"
                /\ fo' = IF mm < 0 THEN BitOr(128, 64) ELSE 128
                /\ m' = IF mm < 0 THEN 0 - mm ELSE mm
                /\ e' = ee
           ELSE /\ pc' = "raised"
                /\ m' = mm /\ e' = ee /\ fo' = 0
        /\ UNCHANGED callVars

\* while m & 0x1 == 0: m >>= 1; e += 1
RealNormalize ==
    /\ pc = "normalize"
    /\ IF m % 2 = 0
       THEN /\ m' = m \div 2
            /\ e' = e + 1
            /\ pc' = pc
       ELSE /\ pc' = "exponent"
            /\ UNCHANGED <<m, e>>
    /\ UNCHANGED <<eo, po, fo, op, arg, res>>

\* while e: eo = int2oct(e&0xff) + eo; e >>= 8
\* eo is recorded up to MaxExponentOctets octets; an iteration on a full eo
\* starts the record again from the octet it adds.
RealExponent ==
    /\ pc = "exponent"
    /\ IF e # 0
       THEN /\ eo' = IF Len(eo) < MaxExponentOctets
                     THEN int2oct(e % 256) \o eo
                     ELSE int2oct(e % 256)
            /\ e' = e \div 256
            /\ pc' = pc
       ELSE /\ pc' = "selector"
            /\ UNCHANGED <<e, eo>>
    /\ UNCHANGED <<m, po, fo, op, arg, res>>

RealSelector ==
    /\ pc = "selector"
    /\ LET f == RealExponentField(fo, eo)
       IN  IF f.ok
           THEN /\ fo' = f.fo
                /\ eo' = f.eo
                /\ pc' = "mantissa"
           ELSE /\ pc' = "raised"
                /\ UNCHANGED <<fo, eo>>
    /\ UNCHANGED <<m, e, po, op, arg, res>>

\* while m: po = int2oct(m&0xff) + po; m >>= 8
RealMantissa ==
    /\ pc = "mantissa"
    /\ IF m # 0
       THEN /\ po' = int2oct(m % 256) \o po
            /\ m' = m \div 256
            /\ pc' = pc
       ELSE /\ pc' = "done"
            /\ UNCHANGED <<m, po>>
    /\ UNCHANGED <<e, eo, fo, op, arg, res>>

RealNext ==
    \/ RealStart
    \/ RealNormalize
    \/ RealExponent
    \/ RealSelector
    \/ RealMantissa

\* The interpreter runs the method on as long as it has a statement to run.
RealSpec == Init /\ [][RealNext]_vars /\ WF_vars(RealNext)

(***************************************************************************)
(* The claims                                                              *)
(***************************************************************************)
Elems == res.elems
ElemIndexes == 1 .. Len(res.elems)

\* C1: IntegerEncoder.encodeValue returns flag 0 and the minimal big-endian
\* two's-complement octets of n: read as a signed number they give n, zero is
\* the single octet 00, and a leading 00 (FF) is never followed by an octet
\* with bit 7 clear (set).
C1_MinimalInteger ==
    op = "IntegerEncoder.encodeValue" =>
        /\ res.isConstructed = 0
        /\ Len(res.substrate) >= 1
        /\ \A i \in 1 .. Len(res.substrate) : res.substrate[i] \in 0 .. 255
        /\ decodeSigned(res.substrate) = arg.value.val
        /\ (arg.value.val = 0 => res.substrate = <<0>>)
        /\ (Len(res.substrate) > 1 =>
               /\ ~(res.substrate[1] = 0 /\ res.substrate[2] < 128)
               /\ ~(res.substrate[1] = 255 /\ res.substrate[2] >= 128))

C1_Witness ==
    /\ op = "IntegerEncoder.encodeValue"
    /\ arg.value.val = -129
    /\ res.substrate = <<255, 127>>

\* C2: decoding the octets of encodeTag(t, c) by the identifier rule gives
\* back the class and the number of t and the constructed flag c, and uses up
\* all the octets.
C2_TagBijection ==
    op = "encodeTag" =>
        LET d == decodeTag(res.octets)
        IN  /\ d.ok
            /\ d.class = arg.t[1]
            /\ d.number = arg.t[3]
            /\ d.constructed = arg.isConstructed
            /\ d.rest = <<>>

\* C3: outside the indefinite branch encodeLength emits the single octet
\* length below 128, and otherwise 0x80|k and the k big-endian octets of
\* length, k minimal and at most 126, raising Error for a larger k; the length
\* rule reads length back from the octets.
C3_DefiniteLength ==
    (op = "encodeLength" /\ ~(arg.defMode = 0 /\ arg.supportIndef # 0)) =>
        LET k == Len(arg.length)
            d == decodeLength(res.val)
        IN  IF arg.n \in 0 .. 127
            THEN /\ res.ok
                 /\ res.val = <<arg.n>>
                 /\ d.ok /\ ~d.indefinite /\ d.rest = <<>>
                 /\ BigToNat(d.length) = arg.n
            ELSE IF k > MaxLengthOctets THEN ~res.ok
            ELSE /\ res.ok
                 /\ k \in 1 .. MaxLengthOctets
                 /\ Len(res.val) = 1 + k
                 /\ res.val[1] = 128 + k
                 /\ res.val[2] # 0
                 /\ \A i \in 2 .. (1 + k) : res.val[i] \in 0 .. 255
                 /\ d.ok /\ ~d.indefinite /\ d.rest = <<>>
                 /\ d.length = arg.length
                 /\ (arg.n >= 0 =>
                        decodeUnsigned(SubSeq(res.val, 2, 1 + k), 0) = arg.n)

C3_Witness ==
    /\ op = "encodeLength"
    /\ arg.defMode = 1
    /\ arg.n = 256
    /\ res.ok
    /\ res.val = <<130, 1, 0>>

C3_WitnessOverflow ==
    /\ op = "encodeLength"
    /\ arg.defMode = 1
    /\ Len(arg.length) = MaxLengthOctets + 1
    /\ ~res.ok

\* C4: every tagged element encode() frames from a codec result with
\* is-constructed = 0 has a definite length, the number of its content octets,
\* and no end-of-contents marker of its own, whatever defMode was asked for.
C4_PrimitiveDefinite ==
    (op = "encode" /\ res.ok) =>
        \A i \in ElemIndexes :
            (Elems[i].tagged /\ Elems[i].isConstructed = 0) =>
                LET d == decodeLength(Elems[i].lengthOctets)
                IN  /\ Elems[i].lengthOctets # <<128>>
                    /\ d.ok /\ ~d.indefinite /\ d.rest = <<>>
                    /\ d.length = NatToBig(Len(Elems[i].substrate))
                    /\ Elems[i].eoc = <<>>
                    /\ Elems[i].octets = Elems[i].tagOctets \o Elems[i].lengthOctets
                                             \o Elems[i].substrate

C4_Witness ==
    /\ op = "encode"
    /\ arg.defMode = 0
    /\ arg.value.typ = "OctetString"
    /\ res.ok
    /\ res.octets = <<4, 15>> \o Quick

\* C5: an element's length field is the single octet 0x80 exactly when its
\* codec reported is-constructed = 1, defMode is false and the codec supports
\* indefinite length; then its identifier has bit 0x20 set and its content is
\* followed by exactly one end-of-contents marker, and otherwise no marker is
\* appended.
C5_IndefiniteClosed ==
    (op = "encode" /\ res.ok) =>
        \A i \in ElemIndexes :
            Elems[i].tagged =>
                LET indef == /\ Elems[i].isConstructed = 1
                             /\ Elems[i].requested = 0
                             /\ supportIndefLenMode(Elems[i].codec) = 1
                IN  /\ (Elems[i].lengthOctets = <<128>>) <=> indef
                    /\ indef =>
                          /\ BitAnd(Elems[i].tagOctets[1], 32) = 32
                          /\ Elems[i].eoc = <<0, 0>>
                          /\ Elems[i].octets = Elems[i].tagOctets \o <<128>>
                                                   \o Elems[i].substrate \o <<0, 0>>
                    /\ ~indef => Elems[i].eoc = <<>>

C5_Witness ==
    /\ op = "encode"
    /\ arg.defMode = 0
    /\ arg.maxChunkSize = 4
    /\ res.ok
    /\ res.octets = <<36, 128, 4, 4, 81, 117, 105, 99, 4, 4, 107, 32, 98, 114,
                      4, 4, 111, 119, 110, 32, 4, 3, 102, 111, 120, 0, 0>>

\* The framing of one call in definite mode: every tagged element declares
\* the number of its content octets, and the content of every constructed
\* element other than ANY is a concatenation of complete elements.
Framed(el) ==
    /\ el.tagged =>
          LET d == decodeLength(el.lengthOctets)
          IN  /\ d.ok /\ ~d.indefinite /\ d.rest = <<>>
              /\ d.length = NatToBig(Len(el.substrate))
              /\ el.octets = el.tagOctets \o el.lengthOctets \o el.substrate
    /\ (el.tagged /\ el.isConstructed = 1 /\ el.codec # "AnyEncoder") =>
          ReadAll(el.substrate, <<>>).ok

OneElement(octets, content) ==
    LET el == ReadElement(octets)
    IN  /\ el.ok
        /\ el.rest = <<>>
        /\ el.content = content

AnyHoldsElements ==
    \A i \in ElemIndexes :
        (~Elems[i].tagged /\ Elems[i].codec = "AnyEncoder") =>
            ReadAll(Elems[i].substrate, <<>>).ok

C7_OidRoundTrip ==
    (op = "ObjectIdentifierEncoder.encodeValue" /\ res.ok) =>
        LET d == decodeObjectIdentifier(res.substrate)
        IN  /\ res.isConstructed = 0
            /\ d.ok
            /\ d.oid = arg.value.val

RECURSIVE OddPart(_)
OddPart(n) == IF n # 0 /\ n % 2 = 0 THEN OddPart(n \div 2) ELSE n

RECURSIVE TwoPower(_)
TwoPower(n) == IF n # 0 /\ n % 2 = 0 THEN 1 + TwoPower(n \div 2) ELSE 0

Abs(n) == IF n < 0 THEN 0 - n ELSE n

\* C8: for a Real (m, 2, e), m # 0 and e >= 0, the content is 1SBBFFEE, the
\* exponent octets and the mantissa octets, and the binary rule reads m * 2^e
\* back from it: the sign, the count of exponent octets the selector states,
\* the signed exponent and the unsigned mantissa; (1, 2, 0) gives 80 00 01.
C8_RealRoundTrip ==
    (op = "RealEncoder.encodeValue" /\ arg.value.val.b = 2 /\ arg.value.val.m # 0) =>
        LET d == decodeRealBinary(res.substrate)
            mm == arg.value.val.m
            ee == arg.value.val.e
        IN  /\ res.ok
            /\ res.isConstructed = 0
            /\ d.ok
            /\ d.negative = (mm < 0)
            /\ d.base = 2
            /\ d.scale = 0
            /\ d.mantissa # 0
            /\ OddPart(d.mantissa) = OddPart(Abs(mm))
            /\ d.exponent + TwoPower(d.mantissa) = ee + TwoPower(Abs(mm))
            /\ ((mm = 1 /\ ee = 0) => res.substrate = <<128, 0, 1>>)

\* C9: the call eventually finishes, returning octets or raising an error.
C9_EncodeTerminates == <>(pc \in {"done", "raised"})

Ceil(a, b) == (a + b - 1) \div b

RECURSIVE Flatten(_)
Flatten(ss) == IF ss = <<>> THEN <<>> ELSE ss[1] \o Flatten(Tail(ss))

\* C10: OctetStringEncoder.encodeValue returns the raw octets with flag 0
\* when maxChunkSize = 0 or the value fits in one chunk; otherwise flag 1 and
\* the encodings, in order, of ceil(len/maxChunkSize) children, each encoded
\* in primitive form with maxChunkSize payload octets, the last with 1 to
\* maxChunkSize, the payloads making up the value.
C10_ChunkPolicy ==
    op = "OctetStringEncoder.encodeValue" =>
        LET v == arg.value.val
            c == arg.maxChunkSize
        IN  /\ res.ok
            /\ IF c = 0 \/ Len(v) <= c
               THEN res.isConstructed = 0 /\ res.substrate = v
               ELSE LET kids == ReadAll(res.substrate, <<>>)
                        n == Ceil(Len(v), c)
                    IN  /\ res.isConstructed = 1
                        /\ kids.ok
                        /\ Len(kids.elems) = n
                        /\ Len(res.calls) = n
                        /\ \A i \in 1 .. n :
                              /\ res.calls[i].tagged
                              /\ res.calls[i].isConstructed = 0
                              /\ res.calls[i].eoc = <<>>
                              /\ res.calls[i].substrate = kids.elems[i].content
                              /\ Len(kids.elems[i].content) \in 1 .. c
                              /\ (i < n => Len(kids.elems[i].content) = c)
                        /\ res.substrate = Flatten([i \in 1 .. n |-> res.calls[i].octets])
                        /\ Flatten([i \in 1 .. n |-> kids.elems[i].content]) = v

C10_Witness ==
    /\ op = "OctetStringEncoder.encodeValue"
    /\ arg.maxChunkSize = 4
    /\ arg.defMode = 1
    /\ arg.value.val = Quick
    /\ res.isConstructed = 1
    /\ res.substrate = <<4, 4, 81, 117, 105, 99, 4, 4, 107, 32, 98, 114,
                         4, 4, 111, 119, 110, 32, 4, 3, 102, 111, 120>>

\* The positions of a SEQUENCE or SET that hold a component other than the
\* declared default of the position
SequenceKept(v) ==
    {i \in 1 .. Len(v.val.components) :
        /\ v.val.components[i].typ # "None"
        /\ ~(/\ v.val.defaults[i].typ # "None"
             /\ SameValue(v.val.defaults[i], v.val.components[i]))}

\* C11: SequenceEncoder.encodeValue, after setDefaultComponents and
\* verifySizeSpec, returns flag 1 and the concatenation, by increasing
\* position, of encodeFun(value[i], defMode, maxChunkSize) for exactly the
\* positions whose component is neither None nor equal to the position's
\* default; it raises when the size check or one of those encodings does.
C11_SequenceContent ==
    op = "SequenceEncoder.encodeValue" =>
        LET v == setDefaultComponents(arg.value)
            n == Len(v.val.components)
            kept == SequenceKept(v)
            enc == [i \in 1 .. n |->
                       IF i \in kept
                       THEN encodeFun(v.val.components[i], arg.defMode, arg.maxChunkSize)
                       ELSE [ok |-> TRUE, octets |-> <<>>, elems |-> <<>>]]
        IN  IF verifySizeSpec(v) /\ \A i \in 1 .. n : enc[i].ok
            THEN /\ res.ok
                 /\ res.isConstructed = 1
                 /\ res.substrate = Flatten([i \in 1 .. n |-> enc[i].octets])
            ELSE ~res.ok

C11_Witness ==
    /\ op = "SequenceEncoder.encodeValue"
    /\ arg.value.typ = "Set"
    /\ Len(arg.value.val.components) = 3
    /\ arg.defMode = 0
    /\ arg.maxChunkSize = 5
    /\ SequenceKept(setDefaultComponents(arg.value)) = {1}
    /\ res.ok
    /\ res.substrate = <<36, 128, 4, 5, 81, 117, 105, 99, 107,
                         4, 5, 32, 98, 114, 111, 119, 4, 5, 110, 32, 102, 111, 120, 0, 0>>

\* The codec the dispatch order names for a value, "none" when it names none
DispatchOrder(v) ==
    CASE Len(v.tagSet) > 1 -> "ExplicitlyTaggedItemEncoder"
      [] Len(v.tagSet) <= 1 /\ v.typeId \in {"Set", "SetOf", "Sequence", "SequenceOf"} ->
            IF v.typeId \in {"Set", "Sequence"} THEN "SequenceEncoder"
            ELSE "SequenceOfEncoder"
      [] Len(v.tagSet) <= 1 /\ v.typeId = "Choice" -> "ChoiceEncoder"
      [] Len(v.tagSet) <= 1 /\ v.typeId = "Any" -> "AnyEncoder"
      [] OTHER ->
            IF InMap(tagMap, v.tagSet) THEN Lookup(tagMap, v.tagSet)
            ELSE IF InMap(tagMap, v.baseTagSet) THEN Lookup(tagMap, v.baseTagSet)
            ELSE "none"

\* C12: Encoder.__call__ sends a value with more than one tag to the
\* explicit-tag encoder whatever its typeId, otherwise a value whose typeId is
\* a key of typeMap to that codec even if its tag set is a key of tagMap,
\* otherwise to tagMap[tagSet], otherwise to tagMap[baseTagSet], and
\* otherwise raises 'No encoder for ...' and returns no octets.
C12_DispatchOrder ==
    op = "encode" =>
        IF DispatchOrder(arg.value) = "none"
        THEN ~res.ok /\ res.error = "No encoder for value"
        ELSE res.ok => Elems[Len(Elems)].codec = DispatchOrder(arg.value)

C12_Witness ==
    /\ op = "encode"
    /\ arg.value.typeId = "Sequence"
    /\ Len(arg.value.tagSet) = 1
    /\ InMap(tagMap, arg.value.tagSet)
    /\ Lookup(tagMap, arg.value.tagSet) = "SequenceOfEncoder"
    /\ res.ok
    /\ Elems[Len(Elems)].codec = "SequenceEncoder"

C12_WitnessNoEncoder ==
    /\ op = "encode"
    /\ arg.value.typ = "Unknown"
    /\ ~res.ok

NotEndOfOctets(el) == el.codec # "EndOfOctetsEncoder"

\* The elements a call framed, the end-of-contents markers left out: the
\* last k of them are the k elements nested around a value of k tags, the
\* innermost first.
Layers == SelectSeq(Elems, NotEndOfOctets)

\* C13: for a value of k >= 2 tags t0 .. tk-1 encode() emits k nested
\* elements whose identifiers carry, from the outside in, tk-1 .. t0; each of
\* the k - 1 outer ones has the constructed bit set and holds exactly the
\* encoding of the value with the tags outside it stripped, and the
\* innermost is not framed by the explicit-tag codec.
C13_ExplicitTagWrapping ==
    (op = "encode" /\ res.ok /\ Len(arg.value.tagSet) >= 2) =>
        LET k == Len(arg.value.tagSet)
            n == Len(Layers)
            layer(j) == Layers[n - k + j]
        IN  /\ n >= k
            /\ layer(k).octets = res.octets
            /\ layer(1).codec # "ExplicitlyTaggedItemEncoder"
            /\ \A j \in 1 .. k :
                  LET d == decodeTag(layer(j).tagOctets)
                  IN  /\ layer(j).tagged
                      /\ d.ok /\ d.rest = <<>>
                      /\ d.class = arg.value.tagSet[j][1]
                      /\ d.number = arg.value.tagSet[j][3]
            /\ \A j \in 2 .. k :
                  /\ layer(j).codec = "ExplicitlyTaggedItemEncoder"
                  /\ BitAnd(layer(j).tagOctets[1], tagFormatConstructed)
                        = tagFormatConstructed
                  /\ layer(j).substrate = layer(j - 1).octets
                  /\ layer(j).substrate =
                        encodeFun(cloneTagSet(arg.value, SubSeq(arg.value.tagSet, 1, j - 1)),
                                  arg.defMode, arg.maxChunkSize).octets

C13_Witness ==
    /\ op = "encode"
    /\ Len(arg.value.tagSet) = 3
    /\ arg.defMode = 0
    /\ arg.maxChunkSize = 0
    /\ res.ok
    /\ res.octets = <<162, 128, 101, 128, 4, 1, 65, 0, 0, 0, 0>>

\* C14: encode() of an untagged ANY returns the value's octets unchanged in
\* either mode and for every maxChunkSize; AnyEncoder.encodeValue reports
\* is-constructed = 1 exactly when defMode is false, so a tagged ANY in
\* indefinite mode is a constructed identifier, the length 0x80, the octets
\* and one end-of-contents marker.
C14_AnyPassThrough ==
    (op = "encode" /\ arg.value.typ = "Any" /\ Len(arg.value.tagSet) <= 1) =>
        LET own == Elems[Len(Elems)]
        IN  /\ res.ok
            /\ own.codec = "AnyEncoder"
            /\ own.substrate = arg.value.val
            /\ (own.isConstructed = 1) <=> (arg.defMode = 0)
            /\ own.isConstructed \in {0, 1}
            /\ IF arg.value.tagSet = <<>>
               THEN /\ res.octets = arg.value.val
                    /\ Len(Elems) = 1
               ELSE IF arg.defMode = 0
               THEN /\ Len(own.tagOctets) = 1
                    /\ BitAnd(own.tagOctets[1], tagFormatConstructed)
                          = tagFormatConstructed
                    /\ res.octets = own.tagOctets \o <<128>> \o arg.value.val \o <<0, 0>>
               ELSE /\ own.lengthOctets = <<Len(arg.value.val)>>
                    /\ res.octets = own.tagOctets \o own.lengthOctets \o arg.value.val

C14_Witness ==
    /\ op = "encode"
    /\ arg.value.typ = "Any"
    /\ arg.defMode = 0
    /\ arg.maxChunkSize = 2
    /\ res.ok
    /\ res.octets = <<166, 128, 4, 1, 65, 0, 0>>

C14_WitnessUntagged ==
    /\ op = "encode"
    /\ arg.value.typ = "Any"
    /\ arg.value.tagSet = <<>>
    /\ arg.defMode = 0
    /\ arg.maxChunkSize = 2
    /\ res.ok
    /\ res.octets = <<4, 1, 65, 5, 0>>

\* C15: every end-of-contents marker is exactly 00 00: encoding the
\* EndOfOctets value gives the identifier 0x00, the short length 0x00, no
\* content and no marker of its own, whichever mode is asked for, and frames
\* nothing below it.
C15_EndOfOctetsIsTwoZeros ==
    (op = "encode" /\ res.ok) =>
        /\ \A i \in ElemIndexes :
              /\ Elems[i].eoc \in {<<>>, <<0, 0>>}
              /\ Elems[i].codec = "EndOfOctetsEncoder" =>
                    /\ Elems[i].tagOctets = <<0>>
                    /\ Elems[i].lengthOctets = <<0>>
                    /\ Elems[i].substrate = <<>>
                    /\ Elems[i].eoc = <<>>
                    /\ Elems[i].octets = <<0, 0>>
        /\ \A d \in {0, 1} :
              LET r == encodeFun(endOfOctets, d, arg.maxChunkSize)
              IN  /\ r.ok
                  /\ r.octets = <<0, 0>>
                  /\ Len(r.elems) = 1
        /\ arg.value.typ = "EndOfOctets" =>
              /\ res.octets = <<0, 0>>
              /\ Len(Elems) = 1

C15_Witness ==
    /\ op = "encode"
    /\ res.ok
    /\ arg.defMode = 0
    /\ \E i \in ElemIndexes :
          /\ Elems[i].codec = "EndOfOctetsEncoder"
          /\ Elems[i].requested = 0
          /\ Elems[i].octets = <<0, 0>>
          /\ i < Len(Elems)
          /\ Elems[Len(Elems)].eoc = <<0, 0>>

C15_WitnessDirect ==
    /\ op = "encode"
    /\ arg.value.typ = "EndOfOctets"
    /\ arg.defMode = 0
    /\ res.ok
    /\ res.octets = <<0, 0>>

\* C16: bit 0x20 of the leading octet returned by encodeTag(t, isConstructed)
\* is 1 if and only if isConstructed is true, whatever form the Tag records.
C16_ConstructedBit ==
    op = "encodeTag" =>
        (BitAnd(res.octets[1], tagFormatConstructed) = tagFormatConstructed
            <=> arg.isConstructed # 0)

\* Bit k (0 the least significant) of an octet
BitAt(octet, k) == (octet \div (2 ^ k)) % 2

\* C17: in primitive form (maxChunkSize = 0 or L <= 8*maxChunkSize)
\* BitStringEncoder.encodeValue returns flag 0 and 1 + ceil(L/8) octets: the
\* first is the number 8*ceil(L/8) - L of unused trailing bits, bit p of the
\* value is bit 7 - (p mod 8) of octet 1 + p div 8, and the unused trailing
\* bits are 0.
C17_BitStringPacking ==
    (/\ op = "BitStringEncoder.encodeValue"
     /\ (arg.maxChunkSize = 0 \/ Len(arg.value.val) <= 8 * arg.maxChunkSize)) =>
        LET b == arg.value.val
            L == Len(b)
            unused == 8 * Ceil(L, 8) - L
        IN  /\ res.ok
            /\ res.isConstructed = 0
            /\ res.calls = <<>>
            /\ Len(res.substrate) = 1 + Ceil(L, 8)
            /\ \A i \in 1 .. Len(res.substrate) : res.substrate[i] \in 0 .. 255
            /\ unused \in 0 .. 7
            /\ res.substrate[1] = unused
            /\ (L = 0 => res.substrate = <<0>>)
            /\ \A p \in 0 .. L - 1 :
                  BitAt(res.substrate[2 + p \div 8], 7 - (p % 8)) = b[p + 1]
            /\ \A p \in L .. 8 * Ceil(L, 8) - 1 :
                  BitAt(res.substrate[2 + p \div 8], 7 - (p % 8)) = 0

C17_Witness ==
    /\ op = "BitStringEncoder.encodeValue"
    /\ arg.value.val = TestBits
    /\ arg.maxChunkSize = 2
    /\ res.ok
    /\ res.isConstructed = 0
    /\ res.substrate = <<1, 169, 138>>

C17_WitnessEmpty ==
    /\ op = "BitStringEncoder.encodeValue"
    /\ arg.value.val = <<>>
    /\ arg.maxChunkSize = 1
    /\ res.ok
    /\ res.substrate = <<0>>

\* The bits held by the content octets of a primitive BIT STRING
UnpackBits(substrate) ==
    [p \in 1 .. (8 * (Len(substrate) - 1) - substrate[1]) |->
        BitAt(substrate[2 + (p - 1) \div 8], 7 - ((p - 1) % 8))]

\* C18: when maxChunkSize > 0 and the value has more than 8*maxChunkSize bits
\* BitStringEncoder.encodeValue returns flag 1 and the encodings, in order,
\* of primitive BIT STRING children holding 8*maxChunkSize bits each except
\* the last; every child but the last has unused-bits octet 0, and the
\* children's bits make up the value.
C18_BitStringChunking ==
    (/\ op = "BitStringEncoder.encodeValue"
     /\ arg.maxChunkSize > 0
     /\ Len(arg.value.val) > 8 * arg.maxChunkSize) =>
        LET b == arg.value.val
            c == arg.maxChunkSize
            n == Ceil(Len(b), 8 * c)
            kids == ReadAll(res.substrate, <<>>)
        IN  /\ res.ok
            /\ res.isConstructed = 1
            /\ Len(res.calls) = n
            /\ kids.ok
            /\ Len(kids.elems) = n
            /\ res.substrate = Flatten([k \in 1 .. n |-> res.calls[k].octets])
            /\ \A k \in 1 .. n :
                  LET kid == res.calls[k]
                      bits == UnpackBits(kid.substrate)
                  IN  /\ kid.codec = "BitStringEncoder"
                      /\ kid.tagged
                      /\ kid.isConstructed = 0
                      /\ kid.tagOctets = encodeTag(arg.value.tagSet[1], 0)
                      /\ kid.lengthOctets = <<Len(kid.substrate)>>
                      /\ kid.eoc = <<>>
                      /\ kid.substrate = kids.elems[k].content
                      /\ kid.substrate[1] \in 0 .. 7
                      /\ Len(bits) \in 1 .. 8 * c
                      /\ (k < n => Len(bits) = 8 * c /\ kid.substrate[1] = 0)
                      /\ bits = SubSeq(b, 8 * c * (k - 1) + 1, Min(8 * c * k, Len(b)))
            /\ Flatten([k \in 1 .. n |-> UnpackBits(res.calls[k].substrate)]) = b

C18_Witness ==
    /\ op = "BitStringEncoder.encodeValue"
    /\ arg.value.val = TestBits
    /\ arg.value.tagSet = BitStringTagSet
    /\ arg.maxChunkSize = 1
    /\ arg.defMode = 0
    /\ res.ok
    /\ res.isConstructed = 1
    /\ res.substrate = <<3, 2, 0, 169, 3, 2, 1, 138>>

C18_WitnessThreeChildren ==
    /\ op = "BitStringEncoder.encodeValue"
    /\ Len(arg.value.val) = 17
    /\ arg.maxChunkSize = 1
    /\ res.ok
    /\ Len(res.calls) = 3
    /\ res.calls[3].substrate = <<7, 128>>

\* C19: ObjectIdentifierEncoder.encodeValue raises, returning no octets, for
\* an OID with fewer than two sub-identifiers, for one whose
\* 40*first + second is below 0 or above 255, and for one with a
\* sub-identifier after the second that is negative or above 0xFFFFFFFF; for
\* every other OID it returns content octets.
C19_OidErrors ==
    op = "ObjectIdentifierEncoder.encodeValue" =>
        LET oid == arg.value.val
            short == Len(oid) < 2
            combination == 40 * SubIdInt(oid[1]) + SubIdInt(oid[2])
            badFirstTwo == ~short /\ (combination < 0 \/ combination > 255)
            badLater == \E i \in 3 .. Len(oid) :
                            oid[i][1] < 0 \/ oid[i][1] >= 2 ^ 25
        IN  IF short \/ badFirstTwo \/ badLater
            THEN /\ ~res.ok
                 /\ res.error \in {"Short OID", "Initial sub-ID overflow", "SubId overflow"}
            ELSE /\ res.ok
                 /\ res.isConstructed = 0
                 /\ res.substrate # <<>>
                 /\ \A i \in 1 .. Len(res.substrate) : res.substrate[i] \in 0 .. 255

C19_Witness ==
    /\ op = "ObjectIdentifierEncoder.encodeValue"
    /\ Len(arg.value.val) = 3
    /\ arg.value.val[3] = <<33554432, 0>>
    /\ ~res.ok
    /\ res.error = "SubId overflow"

C19_WitnessLargestAccepted ==
    /\ op = "ObjectIdentifierEncoder.encodeValue"
    /\ Len(arg.value.val) = 3
    /\ arg.value.val[3] = <<33554431, 127>>
    /\ res.ok
    /\ res.substrate = <<43, 143, 255, 255, 255, 127>>

C19_WitnessShort ==
    /\ op = "ObjectIdentifierEncoder.encodeValue"
    /\ Len(arg.value.val) = 1
    /\ ~res.ok
    /\ res.error = "Short OID"

C19_WitnessFirstTwo ==
    /\ op = "ObjectIdentifierEncoder.encodeValue"
    /\ arg.value.val = SubIds(<<3, 180>>)
    /\ ~res.ok
    /\ res.error = "Initial sub-ID overflow"

C19_WitnessNegative ==
    /\ op = "ObjectIdentifierEncoder.encodeValue"
    /\ arg.value.val = SubIds(<<1, 3, 6, 1, 2, -1>>)
    /\ ~res.ok
    /\ res.error = "SubId overflow"

\* C20: for an OID whose first five sub-identifiers are (1,3,6,1,2) or
\* (1,3,6,1,4), what ObjectIdentifierEncoder.encodeValue gives through the
\* precomputedValues lookup, outcome and octets, is what the general path
\* (40*first + second, then base 128 for each later sub-identifier) gives
\* for the same OID.
C20_PrefixShortCircuit ==
    (/\ op = "ObjectIdentifierEncoder.encodeValue"
     /\ Len(arg.value.val) >= 5
     /\ SubSeq(arg.value.val, 1, 5)
            \in {SubIds(<<1, 3, 6, 1, 2>>), SubIds(<<1, 3, 6, 1, 4>>)}) =>
        LET general == BuildFirstTwos(arg.value.val)
        IN  /\ res.ok = general.ok
            /\ res.ok => /\ res.substrate = general.substrate
                         /\ res.isConstructed = general.isConstructed
                         /\ SubSeq(res.substrate, 1, 3) = <<43, 6, 1>>
            /\ ~res.ok => res.error = general.error

C20_Witness ==
    /\ op = "ObjectIdentifierEncoder.encodeValue"
    /\ arg.value.val = SubIds(<<1, 3, 6, 1, 4, 128, 0>>)
    /\ res.ok
    /\ res.substrate = <<43, 6, 1, 4, 129, 0, 0>>

C20_WitnessRaises ==
    /\ op = "ObjectIdentifierEncoder.encodeValue"
    /\ Len(arg.value.val) = 6
    /\ SubSeq(arg.value.val, 1, 5) = SubIds(<<1, 3, 6, 1, 2>>)
    /\ arg.value.val[6] = <<33554432, 0>>
    /\ ~res.ok

\* C21: two different sub-identifier tuples that
\* ObjectIdentifierEncoder.encodeValue both accepts never give the same
\* content octets.
C21_OidInjective ==
    (op = "ObjectIdentifierEncoder.encodeValue" /\ res.ok) =>
        \A other \in Oids :
            LET r == ObjectIdentifierEncoder_encodeValue(ObjectIdentifierOf(other), 1, 0)
            IN  (other # arg.value.val /\ r.ok) => r.substrate # res.substrate

====
